---------------------------- MODULE Spec2Model ----------------------------
(***************************************************************************)
(* Model of the Ruckus Prometheus exporter's client-location pipeline:     *)
(*   src/triangulation.py    WastelandTriangulator (path-loss model,       *)
(*                           two-anchor and least-squares solvers,         *)
(*                           track_clients)                                *)
(*   src/ruckus_exporter.py  RuckusAPExporter (observation buffer, the     *)
(*                           collection cycle, update_client_locations)    *)
(*                                                                         *)
(* Numbers.  Python floats are modelled by exact integer arithmetic on     *)
(* fixed-point values:                                                     *)
(*   lengths and coordinates   centimetres        (1.0 m   = 100)          *)
(*   confidence                thousandths        (0.1     = 100)          *)
(*   signal strength           dBm, integers                               *)
(*   frequency                 tenths of a GHz    (2.4 GHz = 24)           *)
(*   time                      seconds                                     *)
(* Sums and products are exact (wide integers, so that no intermediate     *)
(* value is cut off); a quotient or a square root is rounded once, to the  *)
(* unit of its result.                                                     *)
(***************************************************************************)
EXTENDS Integers, Sequences, FiniteSets, TLC

VARIABLES
    environment_type,      \* WastelandTriangulator.environment_type
    ap_coordinates,        \* WastelandTriangulator.ap_coordinates: name -> APCoordinates
    ap_hosts,              \* RuckusAPExporter.ap_hosts
    enable_triangulation,  \* RuckusAPExporter.enable_triangulation
    scrape_interval,       \* main(): SCRAPE_INTERVAL
    client_signals,        \* RuckusAPExporter.client_signals (the observation buffer);
                           \* in the library specification, the list given to track_clients
    now,                   \* time.time()
    pc,                    \* position of the running process
    host_idx,              \* collect_metrics: index of the AP host being collected
    cycles,                \* number of collection cycles started
    scrape_errors,         \* the scrape_errors counter, per AP host
    tracked,               \* the argument of the last track_clients call
    recent,                \* track_clients: recent_signals handed to trilaterate, per client
    location,              \* track_clients: what trilaterate returned, per client
    client_locations,      \* what the last track_clients call returned (or raised)
    probe,                 \* library specification: input and outcome of a single call
    float_rounding         \* how binary floating point rounds an exact tie (see HSqSign)

vars == << environment_type, ap_coordinates, ap_hosts, enable_triangulation,
           scrape_interval, client_signals, now, pc, host_idx, cycles,
           scrape_errors, tracked, recent, location, client_locations, probe,
           float_rounding >>

-----------------------------------------------------------------------------
(* Wide integers: sign and magnitude, the magnitude a little-endian        *)
(* sequence of base-10000 limbs without leading zeros.  They carry the     *)
(* exact value of a float expression until it is rounded.                  *)

Base == 10000

Abs(n) == IF n < 0 THEN -n ELSE n

Max(a, b) == IF a >= b THEN a ELSE b

Min(a, b) == IF a <= b THEN a ELSE b

RECURSIVE MFromNat(_)
MFromNat(n) == IF n = 0 THEN << >> ELSE << n % Base >> \o MFromNat(n \div Base)

RECURSIVE MNorm(_)
MNorm(m) ==
    IF m = << >> THEN << >>
    ELSE IF m[Len(m)] = 0 THEN MNorm(SubSeq(m, 1, Len(m) - 1))
    ELSE m

RECURSIVE MAddC(_, _, _)
MAddC(a, b, c) ==
    IF a = << >> /\ b = << >>
    THEN (IF c = 0 THEN << >> ELSE << c >>)
    ELSE LET x  == (IF a = << >> THEN 0 ELSE Head(a))
                   + (IF b = << >> THEN 0 ELSE Head(b)) + c
             ta == IF a = << >> THEN << >> ELSE Tail(a)
             tb == IF b = << >> THEN << >> ELSE Tail(b)
         IN  << x % Base >> \o MAddC(ta, tb, x \div Base)

MAdd(a, b) == MAddC(a, b, 0)

\* a - b for magnitudes with a >= b
RECURSIVE MSubC(_, _, _)
MSubC(a, b, c) ==
    IF a = << >> THEN << >>
    ELSE LET x  == Head(a) - (IF b = << >> THEN 0 ELSE Head(b)) - c
             tb == IF b = << >> THEN << >> ELSE Tail(b)
         IN  IF x < 0
             THEN << x + Base >> \o MSubC(Tail(a), tb, 1)
             ELSE << x >> \o MSubC(Tail(a), tb, 0)

MSub(a, b) == MNorm(MSubC(a, b, 0))

\* -1, 0, 1 as a < b, a = b, a > b
RECURSIVE MCmpFrom(_, _, _)
MCmpFrom(a, b, i) ==
    IF i = 0 THEN 0
    ELSE IF a[i] < b[i] THEN -1
    ELSE IF a[i] > b[i] THEN 1
    ELSE MCmpFrom(a, b, i - 1)

MCmp(a, b) ==
    IF Len(a) < Len(b) THEN -1
    ELSE IF Len(a) > Len(b) THEN 1
    ELSE MCmpFrom(a, b, Len(a))

\* a * k + c for a limb k
RECURSIVE MMulSmall(_, _, _)
MMulSmall(a, k, c) ==
    IF a = << >> THEN MFromNat(c)
    ELSE LET x == Head(a) * k + c
         IN  << x % Base >> \o MMulSmall(Tail(a), k, x \div Base)

MShift(m) == IF m = << >> THEN << >> ELSE << 0 >> \o m

RECURSIVE MMul(_, _)
MMul(a, b) ==
    IF a = << >> \/ b = << >> THEN << >>
    ELSE MAdd(MNorm(MMulSmall(a, Head(b), 0)), MShift(MMul(a, Tail(b))))

W(n) == [neg |-> n < 0, mag |-> MFromNat(Abs(n))]

WZero == W(0)

WIsZero(a) == a.mag = << >>

WNeg(a) == IF WIsZero(a) THEN a ELSE [neg |-> ~a.neg, mag |-> a.mag]

WAbs(a) == [neg |-> FALSE, mag |-> a.mag]

WAdd(a, b) ==
    IF a.neg = b.neg THEN [neg |-> a.neg, mag |-> MAdd(a.mag, b.mag)]
    ELSE LET c == MCmp(a.mag, b.mag)
         IN  IF c = 0 THEN WZero
             ELSE IF c > 0 THEN [neg |-> a.neg, mag |-> MSub(a.mag, b.mag)]
             ELSE [neg |-> b.neg, mag |-> MSub(b.mag, a.mag)]

WSub(a, b) == WAdd(a, WNeg(b))

WMul(a, b) ==
    IF WIsZero(a) \/ WIsZero(b) THEN WZero
    ELSE [neg |-> a.neg # b.neg, mag |-> MMul(a.mag, b.mag)]

\* -1, 0, 1 as a < b, a = b, a > b
WCmp(a, b) ==
    IF a.neg /\ ~b.neg THEN -1
    ELSE IF ~a.neg /\ b.neg THEN 1
    ELSE IF a.neg THEN MCmp(b.mag, a.mag)
    ELSE MCmp(a.mag, b.mag)

WSign(a) == IF WIsZero(a) THEN 0 ELSE IF a.neg THEN -1 ELSE 1

\* the value of a wide integer that fits an integer
RECURSIVE MToNat(_)
MToNat(m) == IF m = << >> THEN 0 ELSE Head(m) + Base * MToNat(Tail(m))

WToInt(a) == IF a.neg THEN -MToNat(a.mag) ELSE MToNat(a.mag)

TopBit == 1073741824

\* floor(n / d) for magnitudes, d # 0, the quotient below 2^31
RECURSIVE MQuoBits(_, _, _, _)
MQuoBits(n, d, q, bit) ==
    IF bit = 0 THEN q
    ELSE IF MCmp(MMul(MFromNat(q + bit), d), n) <= 0
         THEN MQuoBits(n, d, q + bit, bit \div 2)
         ELSE MQuoBits(n, d, q, bit \div 2)

\* the first bit worth trying: quotients are small next to 2^30
RECURSIVE MStartBit(_, _, _)
MStartBit(n, d, bit) ==
    IF bit >= TopBit THEN TopBit
    ELSE IF MCmp(MMul(MFromNat(2 * bit), d), n) > 0 THEN bit
    ELSE MStartBit(n, d, 2 * bit)

MQuo(n, d) == MQuoBits(n, d, 0, MStartBit(n, d, 1))

\* n / d rounded to the nearest integer (half away from zero), d # 0
WRoundDiv(n, d) ==
    LET q == MQuo(MAdd(MMulSmall(n.mag, 2, 0), d.mag), MMulSmall(d.mag, 2, 0))
    IN  IF n.neg # d.neg THEN -q ELSE q

\* floor(sqrt(n)) for a magnitude, the root below 2^31
RECURSIVE MSqrtBits(_, _, _)
MSqrtBits(n, r, bit) ==
    IF bit = 0 THEN r
    ELSE IF MCmp(MMul(MFromNat(r + bit), MFromNat(r + bit)), n) <= 0
         THEN MSqrtBits(n, r + bit, bit \div 2)
         ELSE MSqrtBits(n, r, bit \div 2)

RECURSIVE MSqrtStart(_, _)
MSqrtStart(n, bit) ==
    IF bit >= TopBit THEN TopBit
    ELSE IF MCmp(MMul(MFromNat(2 * bit), MFromNat(2 * bit)), n) > 0 THEN bit
    ELSE MSqrtStart(n, 2 * bit)

\* sqrt(n) rounded to the nearest integer
WSqrt(n) ==
    LET r  == MSqrtBits(n.mag, 0, MSqrtStart(n.mag, 1))
        \* (r + 1/2)^2 <= n  iff  4r^2 + 4r + 1 <= 4n
        lo == MAdd(MMulSmall(MMul(MFromNat(r), MFromNat(r + 1)), 4, 0), << 1 >>)
    IN  IF MCmp(lo, MMulSmall(n.mag, 4, 0)) <= 0 THEN r + 1 ELSE r


-----------------------------------------------------------------------------
(* Values a call can produce: a result, or an exception that propagates.   *)

Ok(v) == [kind |-> "ok", val |-> v]

Raise(e) == [kind |-> "raise", exc |-> e]

NoneValue == [kind |-> "None"]

-----------------------------------------------------------------------------
(* math.log10 and the float power 10 ** e, resolved to 1/100 of a decade.  *)
(* Antilog[j + 1] is 10^(j/100) in units of 1/10000, j = 0..99.            *)

Antilog ==
    << 10000, 10233, 10471, 10715, 10965, 11220, 11482, 11749, 12023, 12303,
       12589, 12882, 13183, 13490, 13804, 14125, 14454, 14791, 15136, 15488,
       15849, 16218, 16596, 16982, 17378, 17783, 18197, 18621, 19055, 19498,
       19953, 20417, 20893, 21380, 21878, 22387, 22909, 23442, 23988, 24547,
       25119, 25704, 26303, 26915, 27542, 28184, 28840, 29512, 30200, 30903,
       31623, 32359, 33113, 33884, 34674, 35481, 36308, 37154, 38019, 38905,
       39811, 40738, 41687, 42658, 43652, 44668, 45709, 46774, 47863, 48978,
       50119, 51286, 52481, 53703, 54954, 56234, 57544, 58884, 60256, 61660,
       63096, 64565, 66069, 67608, 69183, 70795, 72444, 74131, 75858, 77625,
       79433, 81283, 83176, 85114, 87096, 89125, 91201, 93325, 95499, 97724 >>

RECURSIVE TenTo(_)
TenTo(k) == IF k = 0 THEN 1 ELSE 10 * TenTo(k - 1)

\* floor division and remainder for a positive divisor
FloorDiv(a, b) == IF a >= 0 THEN a \div b ELSE -((-a + b - 1) \div b)

RoundDiv(a, b) == FloorDiv(2 * a + b, 2 * b)

\* The largest exponent (1/100 decade) of a finite float: 10 ** e raises
\* OverflowError above it (sys.float_info.max = 1.797...e308 = 10^308.2547).
MaxFloatExp == 30825

\* 10 ** (e/100) in units of 1/10000.  From 10^5 on the value is cut to
\* 10^9: the caller only compares it with 100.0 (min(100.0, distance)).
Pow10(e) ==
    IF e > MaxFloatExp THEN Raise("OverflowError")
    ELSE LET k == FloorDiv(e, 100)
             j == e - 100 * k
         IN  IF k >= 5 THEN Ok(1000000000)
             ELSE IF k >= 0 THEN Ok(Antilog[j + 1] * TenTo(k))
             ELSE IF k >= -5 THEN Ok(RoundDiv(Antilog[j + 1], TenTo(-k)))
             ELSE Ok(0)

\* The table index whose entry is nearest to x, 10000 <= x < 100000.
RECURSIVE AntilogIndex(_, _)
AntilogIndex(x, j) ==
    IF j = 99 THEN 99
    ELSE IF Antilog[j + 2] <= x THEN AntilogIndex(x, j + 1)
    ELSE IF x - Antilog[j + 1] <= Antilog[j + 2] - x THEN j ELSE j + 1

\* math.log10(num / den), den > 0, in 1/100 decade; ValueError ("math domain
\* error") for an argument that is zero or negative.
RECURSIVE Log10Norm(_, _, _)
Log10Norm(num, den, k) ==
    IF num >= 10 * den THEN Log10Norm(num, 10 * den, k + 1)
    ELSE IF num < den THEN Log10Norm(10 * num, den, k - 1)
    ELSE 100 * k + AntilogIndex((10000 * num) \div den, 0)

Log10(num, den) ==
    IF num <= 0 THEN Raise("ValueError") ELSE Ok(Log10Norm(num, den, 0))

-----------------------------------------------------------------------------
(* WastelandTriangulator.__init__: the path-loss parameters of a profile.  *)

Profiles == {"indoor", "outdoor", "vault"}

\* reference_distance, centimetres
reference_distance(env) == 100

\* reference_rssi, dBm
reference_rssi(env) ==
    IF env = "indoor" THEN -30 ELSE IF env = "outdoor" THEN -30 ELSE -35

\* path_loss_exponent, in tenths
path_loss_exponent(env) ==
    IF env = "indoor" THEN 25 ELSE IF env = "outdoor" THEN 35 ELSE 30

\* frequency 2.4 GHz, in tenths of a GHz
DefaultFrequency == 24

MinDistance == 100

MaxDistance == 10000

TooCloseDistance == 50

\* the comparison that selects the "very close" branch
TooClose(rssi, ref) == rssi > ref

\* the clamp of the computed distance
ClampDistance(distance) == Max(MinDistance, Min(MaxDistance, distance))

\* rssi_to_distance: Ok(distance in cm), or the exception it raises.
rssi_to_distance(env, rssi, frequency) ==
    IF TooClose(rssi, reference_rssi(env)) THEN Ok(TooCloseDistance)
    ELSE
    LET lg == IF frequency # DefaultFrequency
              THEN Log10(frequency, DefaultFrequency) ELSE Ok(0)
    IN  IF lg.kind = "raise" THEN lg
        ELSE
        LET \* freq_correction, adjusted_rssi and db_loss in 1/1000 dB
            freq_correction == 200 * lg.val
            adjusted_rssi   == 1000 * rssi - freq_correction
            db_loss         == 1000 * reference_rssi(env) - adjusted_rssi
            exponent        == RoundDiv(db_loss, 10 * path_loss_exponent(env))
            pw              == Pow10(exponent)
        IN  IF pw.kind = "raise" THEN pw
            ELSE Ok(ClampDistance(WRoundDiv(WMul(W(reference_distance(env)), W(pw.val)),
                                            W(10000))))

-----------------------------------------------------------------------------
(* The records of triangulation.py.                                        *)

\* APCoordinates(x, y, z, name), centimetres
APCoordinates(x, y, z, name) == [x |-> x, y |-> y, z |-> z, name |-> name]

\* ClientSignal(mac_address, ap_name, rssi, timestamp, frequency)
ClientSignal(mac, ap, rssi, ts, freq) ==
    [mac_address |-> mac, ap_name |-> ap, rssi |-> rssi, timestamp |-> ts,
     frequency |-> freq]

\* LocationEstimate(x, y, confidence, num_aps, error_radius)
LocationEstimate(x, y, confidence, num_aps, error_radius) ==
    [kind |-> "estimate", x |-> x, y |-> y, confidence |-> confidence,
     num_aps |-> num_aps, error_radius |-> error_radius]

\* add_ap default z = 2.5
DefaultZ == 250

\* a registration that keeps the entry a name already has
add_ap_bad(reg, ap_name, x, y, z) ==
    [n \in DOMAIN reg \cup {ap_name} |->
        IF n \in DOMAIN reg THEN reg[n] ELSE APCoordinates(x, y, z, ap_name)]

\* add_ap: the registry after self.ap_coordinates[ap_name] = APCoordinates(...)
add_ap(reg, ap_name, x, y, z) ==
    [n \in DOMAIN reg \cup {ap_name} |->
        IF n = ap_name THEN APCoordinates(x, y, z, ap_name) ELSE reg[n]]

EmptyRegistry == [n \in {} |-> 0]

-----------------------------------------------------------------------------
(* Sums over sequences.                                                    *)

RECURSIVE SumInt(_)
SumInt(q) == IF q = << >> THEN 0 ELSE Head(q) + SumInt(Tail(q))

RECURSIVE SumW(_)
SumW(q) == IF q = << >> THEN WZero ELSE WAdd(Head(q), SumW(Tail(q)))

RECURSIVE MaxOf(_)
MaxOf(q) == IF Len(q) = 1 THEN q[1] ELSE Max(Head(q), MaxOf(Tail(q)))

Sq(n) == WMul(W(n), W(n))

-----------------------------------------------------------------------------
(* _trilaterate_2ap.  d_ap = sqrt(dx^2 + dy^2) enters the results only as  *)
(* d_ap^2 and in the quotients a/d_ap and h/d_ap, so every value below     *)
(* is an exact expression in d_ap^2 until it is rounded to centimetres.    *)
(* Whole-number intermediate values that fit a machine integer are kept    *)
(* as integers, the products that do not are wide integers.                *)

CoincidentConfidence == 100

NoIntersectConfidence == 300

IntersectConfidence == 700

ExceptConfidence2ap == 200

\* a * b / c, rounded once
MulDiv(a, b, c) == WRoundDiv(WMul(W(a), W(b)), W(c))

\* the coincident-anchor result with the confidence of the no-intersection case
CoincidentResult_bad(ap1, d1, d2) ==
    LocationEstimate(ap1.x, ap1.y, NoIntersectConfidence, 2, Max(d1, d2))

\* line 151: LocationEstimate(ap1.x, ap1.y, 0.1, 2, max(d1, d2))
CoincidentResult(ap1, d1, d2) ==
    LocationEstimate(ap1.x, ap1.y, CoincidentConfidence, 2, Max(d1, d2))

\* one of the two intersection points chosen in the place of their midpoint
Midpoint2ap_bad(px, py, ox, oy) ==
    Ok([x |-> px + ox, y |-> py + oy, confidence |-> IntersectConfidence])

\* lines 165-178: the two intersection points about (px, py), offset by
\* (ox, oy) = (h * (-dy) / d_ap, h * dx / d_ap), and their midpoint
Midpoint2ap(px, py, ox, oy) ==
    LET x1 == px + ox
        y1 == py + oy
        x2 == px - ox
        y2 == py - oy
    IN  Ok([x |-> (x1 + x2) \div 2, y |-> (y1 + y2) \div 2,
            confidence |-> IntersectConfidence])

\* Binary floating point.  A value that is a whole multiple of 0.25 m is a
\* binary fraction: it is represented exactly, and so are the sums, products
\* and quotients of lines 145-157 at the scale of a building.
FloatExact(v) == v % 25 = 0

\* What the rounding of h_sq = d1**2 - a**2 leaves when its exact value is 0
\* and the operands are not binary fractions: a value just below zero (-1)
\* or not below zero (1).  It is fixed by the operands' bits and is unknown
\* at the resolution of this model.  a and h_sq are computed from d1, d2 and
\* d_ap, so the same two circles given in the other order are other
\* operands, unless d1 = d2: the direction is a function of whether
\* d1 <= d2.
Roundings == [BOOLEAN -> {-1, 1}]

\* the directions for the specifications in which no solve is at a tangency
\* on operands that are not binary fractions, where the direction is not read
OrderBlind == {r \in Roundings : r[TRUE] = r[FALSE]}

\* the test h_sq <= 0: a discriminant of zero taken for a negative one
HSqSign_bad(h_num, exact, first) == IF WSign(h_num) > 0 THEN 1 ELSE -1

\* line 159: the sign of h_sq as the test h_sq < 0 sees it
HSqSign(h_num, exact, first) ==
    IF WSign(h_num) # 0 THEN WSign(h_num)
    ELSE IF exact THEN 0
    ELSE float_rounding[first]

\* lines 158-178 for (px, py) = ap1 + a * (dx, dy) / d_ap and
\* h_sq = h_num / (4 * d_ap^2)
Chord2ap(px, py, dx, dy, d_ap2, h_num, exact, first) ==
    IF HSqSign(h_num, exact, first) < 0
    THEN Ok([x |-> px, y |-> py, confidence |-> NoIntersectConfidence])
    ELSE Midpoint2ap(px, py, MulDiv(WSqrt(h_num), -dy, 2 * d_ap2),
                             MulDiv(WSqrt(h_num), dx, 2 * d_ap2))

\* lines 154-179, the try block: the point and confidence, or the exception
\* raised inside it (a division by zero, math.sqrt of a negative number).
Intersect2ap(ap1, d1, ap2, d2) ==
    LET dx    == ap2.x - ap1.x
        dy    == ap2.y - ap1.y
        d_ap2 == dx * dx + dy * dy
        \* a = a_num / (2 * d_ap)
        a_num == d1 * d1 - d2 * d2 + d_ap2
    IN  IF d_ap2 = 0 THEN Raise("ZeroDivisionError")
        ELSE Chord2ap(ap1.x + MulDiv(a_num, dx, 2 * d_ap2),
                      ap1.y + MulDiv(a_num, dy, 2 * d_ap2),
                      dx, dy, d_ap2,
                      \* h_sq = d1^2 - a^2 = h_num / (4 * d_ap^2)
                      WSub(WMul(W(4 * d_ap2), W(d1 * d1)), WMul(W(a_num), W(a_num))),
                      /\ FloatExact(ap1.x) /\ FloatExact(ap1.y)
                      /\ FloatExact(ap2.x) /\ FloatExact(ap2.y)
                      /\ FloatExact(d1) /\ FloatExact(d2),
                      d1 <= d2)

\* max(d1, d2) * 0.3
ErrorRadius2ap(d1, d2) == RoundDiv(3 * Max(d1, d2), 10)

\* lines 180-187: the outcome r of the try block, or the except branch
Estimate2ap(ap1, d1, ap2, d2, r) ==
    IF r.kind = "raise"
    THEN LocationEstimate((ap1.x + ap2.x) \div 2, (ap1.y + ap2.y) \div 2,
                          ExceptConfidence2ap, 2, ErrorRadius2ap(d1, d2))
    ELSE LocationEstimate(r.val.x, r.val.y, r.val.confidence, 2,
                          ErrorRadius2ap(d1, d2))

\* d_ap == 0
Coincident(ap1, ap2) == (ap2.x - ap1.x) = 0 /\ (ap2.y - ap1.y) = 0

trilaterate_2ap(ap_distances) ==
    LET ap1 == ap_distances[1].ap
        d1  == ap_distances[1].d
        ap2 == ap_distances[2].ap
        d2  == ap_distances[2].d
    IN  IF Coincident(ap1, ap2)
        THEN CoincidentResult(ap1, d1, d2)
        ELSE Estimate2ap(ap1, d1, ap2, d2, Intersect2ap(ap1, d1, ap2, d2))

-----------------------------------------------------------------------------
(* _trilaterate_multiap: least squares on the linearised system.           *)

ConfidenceFloor == 100

FullConfidence == 1000

CentroidConfidence == 300

\* rows 2..n of A and b, the first anchor the reference (lines 199-206)
RowA(ref, ap) == << 2 * (ap.x - ref.x), 2 * (ap.y - ref.y) >>

\* the right-hand side with the two squared distances exchanged
RowB_bad(ref, ref_dist, ap, dist) ==
    ap.x * ap.x + ap.y * ap.y - ref.x * ref.x - ref.y * ref.y
        + dist * dist - ref_dist * ref_dist

RowB(ref, ref_dist, ap, dist) ==
    ap.x * ap.x + ap.y * ap.y - ref.x * ref.x - ref.y * ref.y
        + ref_dist * ref_dist - dist * dist

\* abs(det) < 1e-10 (m^4).  For coordinates that are whole centimetres the
\* exact det is a whole number of cm^4 (1e-8 m^4 each), so it is below the
\* threshold only when it is 0.  The float det is the exact one when the
\* coordinates are binary fractions, or when the anchors of a degenerate
\* layout lie on a line parallel to an axis (then a row or a column of ATA is
\* zero); every layout the specifications draw is of one of these kinds.
\* For a degenerate layout on an oblique line through coordinates that are
\* not binary fractions the float det is rounding noise that can exceed the
\* threshold, a case outside this model.
Singular(det) == WIsZero(det)

\* the centroid with the whole mean distance as error radius
CentroidFallback_bad(ap_distances) ==
    LET n  == Len(ap_distances)
        xs == [i \in 1..n |-> ap_distances[i].ap.x]
        ys == [i \in 1..n |-> ap_distances[i].ap.y]
        ds == [i \in 1..n |-> ap_distances[i].d]
    IN  LocationEstimate(RoundDiv(SumInt(xs), n), RoundDiv(SumInt(ys), n),
                         CentroidConfidence, n, RoundDiv(SumInt(ds), n))

\* the centroid with the confidence of the coincident-anchor result
CentroidFallback_low_bad(ap_distances) ==
    LET n  == Len(ap_distances)
        xs == [i \in 1..n |-> ap_distances[i].ap.x]
        ys == [i \in 1..n |-> ap_distances[i].ap.y]
        ds == [i \in 1..n |-> ap_distances[i].d]
    IN  LocationEstimate(RoundDiv(SumInt(xs), n), RoundDiv(SumInt(ys), n),
                         CoincidentConfidence, n, RoundDiv(SumInt(ds), 2 * n))

\* lines 235-238: the centroid of the anchors, 0.3, half the mean distance
CentroidFallback(ap_distances) ==
    LET n  == Len(ap_distances)
        xs == [i \in 1..n |-> ap_distances[i].ap.x]
        ys == [i \in 1..n |-> ap_distances[i].ap.y]
        ds == [i \in 1..n |-> ap_distances[i].d]
    IN  LocationEstimate(RoundDiv(SumInt(xs), n), RoundDiv(SumInt(ys), n),
                         CentroidConfidence, n, RoundDiv(SumInt(ds), 2 * n))

\* the sum of the residuals in the place of their mean
Consistency_bad(x, y, n, total, max_dist) ==
    IF max_dist = 0 THEN Raise("ZeroDivisionError")
    ELSE Ok([x |-> x, y |-> y,
             confidence |-> Max(ConfidenceFloor,
                                FullConfidence - MulDiv(FullConfidence, total, max_dist)),
             error_radius |-> total])

\* the confidence without its floor of 0.1
Consistency_nofloor(x, y, n, total, max_dist) ==
    IF max_dist = 0 THEN Raise("ZeroDivisionError")
    ELSE Ok([x |-> x, y |-> y,
             confidence |-> FullConfidence - MulDiv(FullConfidence, total, n * max_dist),
             error_radius |-> RoundDiv(total, n)])

\* lines 228-231: avg_error = total / n, confidence and error radius
Consistency(x, y, n, total, max_dist) ==
    IF max_dist = 0 THEN Raise("ZeroDivisionError")
    ELSE Ok([x |-> x, y |-> y,
             confidence |-> Max(ConfidenceFloor,
                                FullConfidence - MulDiv(FullConfidence, total, n * max_dist)),
             error_radius |-> RoundDiv(total, n)])

\* lines 221-224: abs(estimated_dist - dist) of every anchor
Residuals(ap_distances, x, y) ==
    [i \in 1..Len(ap_distances) |->
        Abs(WSqrt(WAdd(Sq(x - ap_distances[i].ap.x), Sq(y - ap_distances[i].ap.y)))
            - ap_distances[i].d)]

\* lines 219-229 for the solution (x, y)
Solution(ap_distances, x, y) ==
    Consistency(x, y, Len(ap_distances), SumInt(Residuals(ap_distances, x, y)),
                MaxOf([i \in 1..Len(ap_distances) |-> ap_distances[i].d]))

\* lines 214-217: the 2x2 system ATA * [x, y] = ATb
Solve2x2(ap_distances, a11, a12, a21, a22, b1, b2, det) ==
    IF Singular(det) THEN Raise("ValueError")
    ELSE Solution(ap_distances,
                  WRoundDiv(WSub(WMul(W(a22), b1), WMul(W(a12), b2)), det),
                  WRoundDiv(WSub(WMul(W(a11), b2), WMul(W(a21), b1)), det))

\* det = ATA[0][0] * ATA[1][1] - ATA[0][1] * ATA[1][0]
Det2x2(a11, a12, a21, a22) == WSub(WMul(W(a11), W(a22)), WMul(W(a12), W(a21)))

NormalEquations(ap_distances, a11, a12, a21, a22, b1, b2) ==
    Solve2x2(ap_distances, a11, a12, a21, a22, b1, b2, Det2x2(a11, a12, a21, a22))

\* lines 210-231, the try block: Ok(x, y, confidence, error_radius), or the
\* exception raised inside it.
LeastSquares(ap_distances) ==
    LET n     == Len(ap_distances)
        ref   == ap_distances[1].ap
        rd    == ap_distances[1].d
        A     == [i \in 1..(n - 1) |-> RowA(ref, ap_distances[i + 1].ap)]
        b     == [i \in 1..(n - 1) |->
                     RowB(ref, rd, ap_distances[i + 1].ap, ap_distances[i + 1].d)]
        ATA(i, j) == SumInt([k \in 1..(n - 1) |-> A[k][i] * A[k][j]])
        ATb(i)    == SumW([k \in 1..(n - 1) |-> WMul(W(A[k][i]), W(b[k]))])
    IN  NormalEquations(ap_distances, ATA(1, 1), ATA(1, 2), ATA(2, 1), ATA(2, 2),
                        ATb(1), ATb(2))

\* lines 233-240: the outcome r of the try block, or the except branch
EstimateMultiap(ap_distances, r) ==
    IF r.kind = "raise" THEN CentroidFallback(ap_distances)
    ELSE LocationEstimate(r.val.x, r.val.y, r.val.confidence,
                          Len(ap_distances), r.val.error_radius)

trilaterate_multiap(ap_distances) ==
    EstimateMultiap(ap_distances, LeastSquares(ap_distances))

-----------------------------------------------------------------------------
(* trilaterate                                                             *)

\* lines 124-129, one observation: nothing for an unregistered anchor, else
\* the (anchor, distance) pair, or the exception rssi_to_distance raised
PairOf(reg, signal, distance) ==
    IF signal.ap_name \notin DOMAIN reg THEN Ok(<< >>)
    ELSE IF distance.kind = "raise" THEN distance
    ELSE Ok(<< [ap |-> reg[signal.ap_name], d |-> distance.val] >>)

\* the pair of the first observation before those of the rest
JoinPairs(first, rest) ==
    IF first.kind = "raise" THEN first
    ELSE IF rest.kind = "raise" THEN rest
    ELSE Ok(first.val \o rest.val)

\* lines 121-129: the (anchor, distance) pairs of the observations that name
\* a registered anchor, in order; or the exception rssi_to_distance raised.
RECURSIVE ApDistances(_, _, _)
ApDistances(reg, env, signals) ==
    IF signals = << >> THEN Ok(<< >>)
    ELSE JoinPairs(PairOf(reg, Head(signals),
                          rssi_to_distance(env, Head(signals).rssi,
                                           Head(signals).frequency)),
                   ApDistances(reg, env, Tail(signals)))

\* a threshold of one signal, one usable pair
TooFew_bad(n) == n < 1

\* lines 116 and 131: fewer than 2 signals, fewer than 2 usable pairs
TooFew(n) == n < 2

\* the solver chosen on the number of different anchors among the pairs
SolveFor_bad(ap_distances) ==
    IF ap_distances.kind = "raise" THEN ap_distances
    ELSE IF TooFew(Len(ap_distances.val)) THEN NoneValue
    ELSE IF Cardinality({ap_distances.val[i].ap : i \in 1..Len(ap_distances.val)}) <= 2
    THEN trilaterate_2ap(ap_distances.val)
    ELSE trilaterate_multiap(ap_distances.val)

\* lines 131-138
SolveFor(ap_distances) ==
    IF ap_distances.kind = "raise" THEN ap_distances
    ELSE IF TooFew(Len(ap_distances.val)) THEN NoneValue
    ELSE IF Len(ap_distances.val) = 2 THEN trilaterate_2ap(ap_distances.val)
    ELSE trilaterate_multiap(ap_distances.val)

\* A LocationEstimate, NoneValue, or Raise(exception).
trilaterate(reg, env, signals) ==
    IF TooFew(Len(signals)) THEN NoneValue
    ELSE SolveFor(ApDistances(reg, env, signals))

-----------------------------------------------------------------------------
(* track_clients                                                           *)

RecencyWindow == 30

\* the keys of client_signals (a defaultdict), in insertion order
RECURSIVE MacOrder(_, _)
MacOrder(all_signals, seen) ==
    IF all_signals = << >> THEN << >>
    ELSE IF Head(all_signals).mac_address \in seen
         THEN MacOrder(Tail(all_signals), seen)
         ELSE << Head(all_signals).mac_address >>
              \o MacOrder(Tail(all_signals), seen \cup {Head(all_signals).mac_address})

\* client_signals[mac]
GroupOf(all_signals, mac) == SelectSeq(all_signals, LAMBDA s : s.mac_address = mac)

\* max(s.timestamp for s in signals)
latest_time(signals) == MaxOf([i \in 1..Len(signals) |-> signals[i].timestamp])

\* a filter for the observations before the newest one
IsRecent_bad(latest, s) ==
    0 < latest - s.timestamp /\ latest - s.timestamp <= RecencyWindow

\* the test of the recency filter
IsRecent(latest, s) == latest - s.timestamp <= RecencyWindow

\* the newest timestamp over the observations of all clients
NewestFor_bad(all_signals, mac) == latest_time(all_signals)

\* the newest timestamp the filter of client mac's group is measured from
NewestFor(all_signals, mac) == latest_time(GroupOf(all_signals, mac))

\* recent_signals of client mac
recent_signals(all_signals, mac) ==
    SelectSeq(GroupOf(all_signals, mac),
              LAMBDA s : IsRecent(NewestFor(all_signals, mac), s))

\* a floor that keeps a confidence of exactly 0.1
KeepLocation_bad(loc) == loc.kind = "estimate" /\ loc.confidence >= ConfidenceFloor

\* line 263: location and location.confidence > 0.1
KeepLocation(loc) == loc.kind = "estimate" /\ loc.confidence > ConfidenceFloor

\* m |-> v added to, or replaced in, the mapping
Put(map, m, v) == [k \in DOMAIN map \cup {m} |-> IF k = m THEN v ELSE map[k]]

\* lines 261-266 for one client: what was handed to trilaterate, what it
\* returned, and the mapping with the client's entry if it is kept; an
\* exception of trilaterate becomes the result.
TrackOne(acc, mac, rs, loc) ==
    [recent   |-> Put(acc.recent, mac, rs),
     location |-> Put(acc.location, mac, loc),
     result   |-> IF loc.kind = "raise" THEN loc
                  ELSE IF KeepLocation(loc) THEN Ok(Put(acc.result.val, mac, loc))
                  ELSE acc.result]

\* line 262: if recent_signals: location = self.trilaterate(recent_signals)
Locate(reg, env, rs) == IF rs = << >> THEN NoneValue ELSE trilaterate(reg, env, rs)

\* The loop of lines 255-266 over the clients macs, in order; an exception
\* ends the loop and propagates.
RECURSIVE TrackLoop(_, _, _, _, _)
TrackLoop(reg, env, all_signals, macs, acc) ==
    IF macs = << >> \/ acc.result.kind = "raise" THEN acc
    ELSE TrackLoop(reg, env, all_signals, Tail(macs),
                   TrackOne(acc, Head(macs), recent_signals(all_signals, Head(macs)),
                            Locate(reg, env, recent_signals(all_signals, Head(macs)))))

EmptyMap == [m \in {} |-> 0]

\* a mapping kept on the tracker: the call starts from what the call
\* before it returned
InitialLocations_bad ==
    IF client_locations.kind = "ok" THEN client_locations.val ELSE EmptyMap

\* line 254: client_locations = {}, a local of the call
InitialLocations == EmptyMap

\* track_clients(all_signals): result is Ok(client_locations) or Raise(...)
track_clients(reg, env, all_signals) ==
    TrackLoop(reg, env, all_signals, MacOrder(all_signals, {}),
              [recent |-> EmptyMap, location |-> EmptyMap, result |-> Ok(InitialLocations)])

-----------------------------------------------------------------------------
(* Values of the variables a specification does not use.                   *)

NoCall == [kind |-> "none"]

Idle == [kind |-> "idle"]

\* no exporter around the library
NoExporter ==
    /\ ap_hosts = << >>
    /\ enable_triangulation = FALSE
    /\ scrape_interval = 0
    /\ now = 0
    /\ host_idx = 0
    /\ cycles = 0
    /\ scrape_errors = EmptyMap

\* no call of track_clients made yet
NoTrack ==
    /\ tracked = NoCall
    /\ recent = EmptyMap
    /\ location = EmptyMap
    /\ client_locations = NoCall

\* a lookup that takes the entry out of the registry (dict.pop)
ReadRegistry_bad(reg, all_signals) ==
    [n \in DOMAIN reg \ {all_signals[i].ap_name : i \in 1..Len(all_signals)} |-> reg[n]]

\* lines 123 and 128: the registry after the membership tests and the
\* lookups trilaterate makes for the observations; a plain dict, read only
ReadRegistry(reg, all_signals) == reg

\* track_clients returned t for the argument all_signals at time at
Returned(t, all_signals, at) ==
    /\ ap_coordinates' = ReadRegistry(ap_coordinates, all_signals)
    /\ tracked' = [kind |-> "call", signals |-> all_signals, at |-> at]
    /\ recent' = t.recent
    /\ location' = t.location
    /\ client_locations' = t.result

-----------------------------------------------------------------------------
(* SpecRssi: rssi_to_distance as a pure function.  Init draws a profile,   *)
(* a frequency and two signal strengths; the action calls the function on  *)
(* both, and track_clients on the two observations that carry them.        *)

\* signal strengths -MaxLoss..0 dBm in steps of RssiStep, the reference
\* values and their neighbours, and readings far outside the usual range
MaxLoss == 100

RssiStep == 5

FarRssi == {-9000, -7730, 40}

RssiValues ==
    {r \in -MaxLoss..0 : r % RssiStep = 0} \cup {-36, -35, -34, -31, -29} \cup FarRssi

\* 2.4, 5.0 and 0.9 GHz; a frequency of zero; a negative frequency
Frequencies == {24, 50, 9, 0, -24}

\* setup_vault_tec_facility: the first two anchors
ProbeRegistry ==
    add_ap(add_ap(EmptyRegistry, "vault-ap-01", 0, 0, 300), "vault-ap-02", 3000, 0, 300)

ProbeSignals(p) ==
    << ClientSignal("aa:bb:cc:dd:ee:01", "vault-ap-01", p.rssi1, 0, p.frequency),
       ClientSignal("aa:bb:cc:dd:ee:01", "vault-ap-02", p.rssi2, 0, p.frequency) >>

InitRssi ==
    /\ float_rounding \in OrderBlind
    /\ NoExporter
    /\ NoTrack
    /\ environment_type \in Profiles
    /\ ap_coordinates = ProbeRegistry
    /\ client_signals = << >>
    /\ pc = "probe"
    /\ \E r1 \in RssiValues, r2 \in RssiValues, f \in Frequencies :
          /\ r1 <= r2
          /\ probe = [kind |-> "input", rssi1 |-> r1, rssi2 |-> r2, frequency |-> f]

CallRssi ==
    /\ pc = "probe"
    /\ probe.kind = "input"
    /\ probe' = [kind |-> "output", rssi1 |-> probe.rssi1, rssi2 |-> probe.rssi2,
                 frequency |-> probe.frequency,
                 out1 |-> rssi_to_distance(environment_type, probe.rssi1, probe.frequency),
                 out2 |-> rssi_to_distance(environment_type, probe.rssi2, probe.frequency)]
    /\ client_signals' = ProbeSignals(probe)
    /\ Returned(track_clients(ap_coordinates, environment_type, ProbeSignals(probe)),
                ProbeSignals(probe), now)
    /\ pc' = "probed"
    /\ UNCHANGED << float_rounding, environment_type, ap_hosts, enable_triangulation,
                    scrape_interval, now, host_idx, cycles, scrape_errors >>

NextRssi == CallRssi

SpecRssi == InitRssi /\ [][NextRssi]_vars

-----------------------------------------------------------------------------
(* SpecLib: the library on its own.  A registry is set up, a list of       *)
(* observations is put together one by one, and track_clients is called    *)
(* on it.                                                                  *)

MaxSignals == 3

LibMacs == {"aa:bb:cc:dd:ee:01", "11:22:33:44:55:02"}

\* three registered names and one that is never registered
LibAnchors == {"vault-ap-01", "vault-ap-02", "vault-ap-03", "unknown-ap"}

\* one reading above every reference value, one below
LibRssi == {-25, -55}

LibTimes == {0, 15, 35, 45}

\* setup_vault_tec_facility: a triangle
VaultRegistry ==
    add_ap(add_ap(add_ap(EmptyRegistry, "vault-ap-01", 0, 0, 300),
                  "vault-ap-02", 3000, 0, 300),
           "vault-ap-03", 1500, 2000, 300)

\* two anchors mounted at one spot and a third on the same line
StackedRegistry ==
    add_ap(add_ap(add_ap(EmptyRegistry, "vault-ap-01", 0, 0, DefaultZ),
                  "vault-ap-02", 0, 0, DefaultZ),
           "vault-ap-03", 2000, 0, DefaultZ)

Setups ==
    { [env |-> "vault", reg |-> VaultRegistry],
      [env |-> "indoor", reg |-> StackedRegistry] }

InitLib ==
    /\ float_rounding \in OrderBlind
    /\ NoExporter
    /\ NoTrack
    /\ \E setup \in Setups :
          /\ environment_type = setup.env
          /\ ap_coordinates = setup.reg
    /\ client_signals = << >>
    /\ pc = "lib_build"
    /\ probe = Idle

\* one more observation, not older than the one before it
LibObserve ==
    /\ pc = "lib_build"
    /\ Len(client_signals) < MaxSignals
    /\ \E mac \in LibMacs, ap \in LibAnchors, rssi \in LibRssi, ts \in LibTimes :
          /\ client_signals # << >> =>
                client_signals[Len(client_signals)].timestamp <= ts
          /\ client_signals' =
                Append(client_signals, ClientSignal(mac, ap, rssi, ts, DefaultFrequency))
    /\ UNCHANGED << float_rounding, environment_type, ap_coordinates, ap_hosts, enable_triangulation,
                    scrape_interval, now, pc, host_idx, cycles, scrape_errors,
                    tracked, recent, location, client_locations, probe >>

LibTrack ==
    /\ pc = "lib_build"
    /\ Returned(track_clients(ap_coordinates, environment_type, client_signals),
                client_signals, now)
    /\ pc' = "lib_done"
    /\ UNCHANGED << float_rounding, environment_type, ap_hosts, enable_triangulation,
                    scrape_interval, client_signals, now, host_idx, cycles,
                    scrape_errors, probe >>

NextLib == LibObserve \/ LibTrack

SpecLib == InitLib /\ [][NextLib]_vars

-----------------------------------------------------------------------------
(* SpecSolve: the solvers as pure functions.  Init draws two to MaxAnchors  *)
(* (anchor, distance) pairs; the action hands them to the dispatch of       *)
(* trilaterate (lines 131-138), which calls _trilaterate_2ap or             *)
(* _trilaterate_multiap.                                                    *)

MaxAnchors == 3

\* anchor positions: three on the x axis, the apex of a triangle over them,
\* and one that is no whole multiple of 0.25 m away from the origin
SolvePoints == { << 0, 0 >>, << 2000, 0 >>, << 3000, 0 >>, << 1500, 2000 >>, << 284, 0 >> }

\* estimated distances, 1.42 m to 20 m
SolveDistances == {142, 500, 1000, 1284, 1500, 2000}

SolvePairs ==
    { [ap |-> APCoordinates(p[1], p[2], DefaultZ, ""), d |-> d] :
          p \in SolvePoints, d \in SolveDistances }

\* the direction is read by the two-anchor solver alone
InitSolve ==
    /\ NoExporter
    /\ NoTrack
    /\ environment_type = "indoor"
    /\ ap_coordinates = EmptyRegistry
    /\ client_signals = << >>
    /\ pc = "solve"
    /\ \E n \in 2..MaxAnchors : \E q \in [1..n -> SolvePairs] :
          /\ probe = [kind |-> "pairs", ap_distances |-> q]
          /\ float_rounding \in (IF n = 2 THEN Roundings ELSE OrderBlind)

CallSolve ==
    /\ pc = "solve"
    /\ probe' = [kind |-> "solved", ap_distances |-> probe.ap_distances,
                 out |-> SolveFor(Ok(probe.ap_distances))]
    /\ pc' = "solved"
    /\ UNCHANGED << float_rounding, environment_type, ap_coordinates, ap_hosts,
                    enable_triangulation, scrape_interval, client_signals, now,
                    host_idx, cycles, scrape_errors, tracked, recent, location,
                    client_locations >>

NextSolve == CallSolve

SpecSolve == InitSolve /\ [][NextSolve]_vars

-----------------------------------------------------------------------------
(* Spec: the exporter.  main() constructs the exporter and loops:          *)
(* collect_metrics, which polls every AP host in turn and then runs        *)
(* update_client_locations, and a sleep of scrape_interval seconds.  The   *)
(* clock stands still during a cycle and advances in the sleep.            *)

MaxCycles == 3

RetentionWindow == 60

\* RUCKUS_AP_HOSTS: the default host, or a list of two
HostNames == << "192.168.1.100", "192.168.1.101" >>

\* SCRAPE_INTERVAL: the default and a longer one
Intervals == {30, 70}

\* _setup_ap_coordinates without provided coordinates: the demo layout,
\* host number i (from 0) at (20 * i, 0, 2.5)
RECURSIVE DemoLayout(_, _)
DemoLayout(hosts, i) ==
    IF i = 0 THEN EmptyRegistry
    ELSE add_ap(DemoLayout(hosts, i - 1), hosts[i], (i - 1) * 2000, 0, DefaultZ)

\* lines 69-73: the triangulator exists only when triangulation is enabled
setup_ap_coordinates(hosts, enabled) ==
    IF enabled THEN DemoLayout(hosts, Len(hosts)) ELSE EmptyRegistry

\* What one AP host answers in a cycle: the collection raises before
\* collect_client_signals is reached ("error"); the R700 interface mapping
\* finds SSIDs and collect_wireless_metrics returns early ("r700"); or the
\* RSSI table is walked and has these rows, one value per client index.
RssiRows == { << >>, << -50 >>, << -101, -70 >> }

Replies ==
    { [kind |-> "error"], [kind |-> "r700"] }
        \cup { [kind |-> "rows", rows |-> r] : r \in RssiRows }

\* base_rssi = -45 + random.randint(-15, 5), a value of -60..-40
DemoRssi == {-60}

demo_clients == << "aa:bb:cc:dd:ee:01", "11:22:33:44:55:02" >>

\* line 814: the MAC table's rows never join the RSSI rows, so the MAC is
\* f"aa:bb:cc:dd:ee:{hash(client_id) % 256:02x}", one value per client index
PlaceholderMac(index) == IF index = 1 THEN "aa:bb:cc:dd:ee:a1" ELSE "aa:bb:cc:dd:ee:b2"

\* line 781: -100 <= rssi_value <= 0
ValidRssi(rssi) == -100 <= rssi /\ rssi <= 0

\* lines 809-838: one ClientSignal per client index with a valid RSSI
RECURSIVE RealSignals(_, _, _, _)
RealSignals(rows, index, ap_host, current_time) ==
    IF index > Len(rows) THEN << >>
    ELSE (IF ValidRssi(rows[index])
          THEN << ClientSignal(PlaceholderMac(index), ap_host, rows[index],
                               current_time, DefaultFrequency) >>
          ELSE << >>)
         \o RealSignals(rows, index + 1, ap_host, current_time)

\* _generate_demo_client_data: the first two demo clients
DemoSignals(ap_host, current_time, r1, r2) ==
    << ClientSignal(demo_clients[1], ap_host, r1, current_time, DefaultFrequency),
       ClientSignal(demo_clients[2], ap_host, r2, current_time, DefaultFrequency) >>

\* collect_client_signals: what is appended to client_signals
collect_client_signals(hosts, ap_host, rows, current_time, r1, r2) ==
    IF RealSignals(rows, 1, ap_host, current_time) # << >>
    THEN RealSignals(rows, 1, ap_host, current_time)
    ELSE IF Len(hosts) > 1 THEN DemoSignals(ap_host, current_time, r1, r2)
    ELSE << >>

\* line 941: the signals not older than 60 seconds
Retained(signals, current_time) ==
    SelectSeq(signals, LAMBDA s : current_time - s.timestamp <= RetentionWindow)

Init ==
    /\ float_rounding \in OrderBlind
    /\ \E n \in 1..Len(HostNames) : ap_hosts = SubSeq(HostNames, 1, n)
    /\ enable_triangulation \in BOOLEAN
    /\ scrape_interval \in Intervals
    /\ environment_type = "indoor"
    /\ ap_coordinates = setup_ap_coordinates(ap_hosts, enable_triangulation)
    /\ client_signals = << >>
    /\ now = 0
    /\ pc = "collect"
    /\ host_idx = 1
    /\ cycles = 1
    /\ scrape_errors = [h \in {ap_hosts[i] : i \in 1..Len(ap_hosts)} |-> 0]
    /\ NoTrack
    /\ probe = Idle

\* a counter without the host label: every host's count goes up
CountError_bad(errors, ap_host) == [h \in DOMAIN errors |-> errors[h] + 1]

\* line 964: self.scrape_errors.labels(ap_host=ap_host).inc()
CountError(errors, ap_host) == [errors EXCEPT ![ap_host] = @ + 1]

\* the triangulation step inside the loop, after every host
AfterHost_bad(hosts, idx) == "triangulate"

\* lines 949 and 967-969: the loop goes on to the next host, and the
\* triangulation step follows the last one
AfterHost(hosts, idx) == IF idx = Len(hosts) THEN "triangulate" ELSE "collect"

\* One pass of the loop of collect_metrics (lines 949-965) for the host
\* ap_hosts[host_idx].
CollectHost ==
    /\ pc = "collect"
    /\ \E reply \in Replies, r1 \in DemoRssi, r2 \in DemoRssi :
          /\ scrape_errors' =
                IF reply.kind = "error"
                THEN CountError(scrape_errors, ap_hosts[host_idx])
                ELSE scrape_errors
          /\ client_signals' =
                IF reply.kind = "rows" /\ enable_triangulation
                THEN client_signals
                     \o collect_client_signals(ap_hosts, ap_hosts[host_idx], reply.rows,
                                               now, r1, r2)
                ELSE client_signals
    /\ host_idx' = host_idx + 1
    /\ pc' = AfterHost(ap_hosts, host_idx)
    /\ UNCHANGED << float_rounding, environment_type, ap_coordinates, ap_hosts, enable_triangulation,
                    scrape_interval, now, cycles, tracked, recent, location,
                    client_locations, probe >>

\* update_client_locations gets past its two early returns
Tracks == enable_triangulation /\ Len(ap_hosts) >= 2 /\ Len(client_signals) >= 2

\* lines 917-941: track_clients returned t; the gauges are set and the
\* buffer is pruned, unless t is an exception, which collect_metrics catches
AfterTrack(t) ==
    /\ Returned(t, client_signals, now)
    /\ client_signals' =
          IF t.result.kind = "raise" THEN client_signals
          ELSE Retained(client_signals, now)

\* The end of collect_metrics (lines 968-972): update_client_locations,
\* which calls track_clients and then prunes the buffer.
Triangulate ==
    /\ pc = "triangulate"
    /\ Tracks
    \* line 915: track_clients(self.client_signals), the whole buffer
    /\ AfterTrack(track_clients(ap_coordinates, environment_type, client_signals))
    /\ pc' = "sleep"
    /\ UNCHANGED << float_rounding, environment_type, ap_hosts, enable_triangulation,
                    scrape_interval, now, host_idx, cycles, scrape_errors, probe >>

\* The end of collect_metrics when update_client_locations is not called
\* or returns at once.
SkipTriangulate ==
    /\ pc = "triangulate"
    /\ ~Tracks
    /\ pc' = "sleep"
    /\ UNCHANGED << float_rounding, environment_type, ap_coordinates, ap_hosts, enable_triangulation,
                    scrape_interval, client_signals, now, host_idx, cycles,
                    scrape_errors, tracked, recent, location, client_locations, probe >>

\* time.sleep(scrape_interval), and the loop of main starts the next cycle
Sleep ==
    /\ pc = "sleep"
    /\ cycles < MaxCycles
    /\ now' = now + scrape_interval
    /\ cycles' = cycles + 1
    /\ host_idx' = 1
    /\ pc' = "collect"
    /\ tracked' = NoCall
    /\ UNCHANGED << float_rounding, environment_type, ap_coordinates, ap_hosts, enable_triangulation,
                    scrape_interval, client_signals, scrape_errors, recent, location,
                    client_locations, probe >>

Next == CollectHost \/ Triangulate \/ SkipTriangulate \/ Sleep

Spec == Init /\ [][Next]_vars

-----------------------------------------------------------------------------
(* The claims.  Lengths are centimetres and confidences thousandths, so    *)
(* 0.1 is 100, 0.5 m is 50 and the range 1.0..100.0 m is 100..10000.       *)

\* the observations of a list that name a registered anchor
Usable(signals) == SelectSeq(signals, LAMBDA s : s.ap_name \in DOMAIN ap_coordinates)

\* the registered anchors the observations of a list name
RegisteredAnchors(signals) == {signals[i].ap_name : i \in 1..Len(signals)} \cap DOMAIN ap_coordinates

\* the clients of the list given to track_clients
Clients == {client_signals[i].mac_address : i \in 1..Len(client_signals)}

\* the timestamps of client mac's observations in that list
OwnTimes(mac) ==
    {client_signals[i].timestamp :
        i \in {j \in 1..Len(client_signals) : client_signals[j].mac_address = mac}}

\* the timestamps of a list of observations, in order
TimesOf(signals) == [i \in 1..Len(signals) |-> signals[i].timestamp]

\* the distance estimated for an observation
DistanceOf(s) == rssi_to_distance(environment_type, s.rssi, s.frequency).val

\* C1: for every registry and observation list, track_clients (through
\* trilaterate) produces a LocationEstimate for a client only when the
\* observations handed to the solver name at least two distinct registered
\* anchors, also when a client has several observations of one anchor.
C1_TwoDistinctAnchors ==
    pc = "lib_done" =>
        \A mac \in DOMAIN location :
            location[mac].kind = "estimate" =>
                Cardinality(RegisteredAnchors(recent[mac])) >= 2

\* C2: an observation naming an unregistered anchor is skipped without an
\* exception, and a client left with fewer than two usable observations
\* gets no estimate and is absent from the mapping track_clients returns.
C2_UnregisteredSkipped ==
    pc = "lib_done" =>
        /\ client_locations.kind = "ok"
        /\ DOMAIN location = Clients
        /\ \A mac \in Clients :
              Len(Usable(recent[mac])) < 2 =>
                  /\ location[mac] = NoneValue
                  /\ mac \notin DOMAIN client_locations.val

\* a client whose only observation names an unregistered anchor is omitted,
\* next to a client that is located
C2_Witness ==
    /\ pc = "lib_done"
    /\ \E mac \in Clients :
          /\ Len(GroupOf(client_signals, mac)) = 1
          /\ Usable(GroupOf(client_signals, mac)) = << >>
          /\ mac \notin DOMAIN client_locations.val
    /\ DOMAIN client_locations.val # {}

\* C3: every estimate in the mapping returned by track_clients has a
\* confidence strictly above 0.1; a client whose solver result has
\* confidence exactly 0.1 is omitted, and no exception is raised.
C3_ConfidenceFloor ==
    pc = "lib_done" =>
        /\ client_locations.kind = "ok"
        /\ \A mac \in DOMAIN client_locations.val :
              /\ client_locations.val[mac] = location[mac]
              /\ location[mac].kind = "estimate"
              /\ location[mac].confidence > 100
        /\ \A mac \in DOMAIN location :
              (location[mac].kind = "estimate" /\ location[mac].confidence = 100)
                  => mac \notin DOMAIN client_locations.val

\* a solver result of confidence exactly 0.1, omitted
C3_Witness ==
    /\ pc = "lib_done"
    /\ \E mac \in DOMAIN location :
          /\ location[mac].kind = "estimate"
          /\ location[mac].confidence = 100
          /\ mac \notin DOMAIN client_locations.val

\* C4: for each client separately, exactly the observations at most 30
\* seconds older than the newest of that client's own observations are
\* handed to the solver; one exactly 30 seconds older is retained.
C4_RecencyPerClient ==
    pc = "lib_done" =>
        /\ DOMAIN recent = Clients
        /\ \A mac \in Clients :
              recent[mac] =
                  SelectSeq(client_signals,
                      LAMBDA s : /\ s.mac_address = mac
                                 /\ \E newest \in OwnTimes(mac) :
                                       /\ \A t \in OwnTimes(mac) : t <= newest
                                       /\ newest - s.timestamp <= 30)

\* observations of one client at T - 45, T - 10 and T: the last two retained
C4_Witness ==
    /\ pc = "lib_done"
    /\ \E mac \in Clients :
          /\ TimesOf(GroupOf(client_signals, mac)) = << 0, 35, 45 >>
          /\ TimesOf(recent[mac]) = << 35, 45 >>

\* C5: after every collection cycle, in every configuration, the buffer
\* client_signals holds no observation older than 60 seconds.
C5_BufferBounded ==
    pc = "sleep" =>
        \A i \in 1..Len(client_signals) : now - client_signals[i].timestamp <= 60

\* C6: update_client_locations prunes the buffer by the 60-second rule
\* before it calls track_clients, so no observation older than 60 seconds
\* is ever passed to track_clients.
C6_PrunedBeforeTrack ==
    tracked.kind = "call" =>
        \A i \in 1..Len(tracked.signals) :
            tracked.at - tracked.signals[i].timestamp <= 60

\* C7: rssi_to_distance returns a distance for every signal strength and
\* every frequency and never raises, so track_clients never fails because
\* of the numeric fields of an observation.
C7_NeverRaises ==
    pc = "probed" =>
        /\ probe.out1.kind = "ok"
        /\ probe.out2.kind = "ok"
        /\ client_locations.kind = "ok"

\* C8: for every profile and every frequency rssi_to_distance returns 0.5
\* above the profile's reference RSSI and otherwise a value in
\* [1.0, 100.0]; at the reference RSSI on 2.4 GHz it returns 1.0.
C8_Range ==
    pc = "probed" =>
        /\ probe.out1.kind = "ok"
        /\ IF probe.rssi1 > reference_rssi(environment_type)
           THEN probe.out1.val = 50
           ELSE 100 <= probe.out1.val /\ probe.out1.val <= 10000
        /\ (probe.rssi1 = reference_rssi(environment_type) /\ probe.frequency = 24)
              => probe.out1.val = 100

\* C9: for every profile and any fixed frequency, rssi1 <= rssi2 implies
\* rssi_to_distance(rssi1, f) >= rssi_to_distance(rssi2, f).
C9_Monotone ==
    pc = "probed" =>
        /\ probe.rssi1 <= probe.rssi2
        /\ probe.out1.kind = "ok"
        /\ probe.out2.kind = "ok"
        /\ probe.out1.val >= probe.out2.val

\* C10: a client with exactly two usable observations whose anchors lie at
\* the same place gets that place, confidence 0.1, anchor count 2 and the
\* larger of the two estimated distances as error radius; nothing raises.
C10_Coincident ==
    pc = "lib_done" =>
        \A mac \in Clients :
            (/\ Len(Usable(recent[mac])) = 2
             /\ ap_coordinates[Usable(recent[mac])[1].ap_name].x
                   = ap_coordinates[Usable(recent[mac])[2].ap_name].x
             /\ ap_coordinates[Usable(recent[mac])[1].ap_name].y
                   = ap_coordinates[Usable(recent[mac])[2].ap_name].y)
            => location[mac] =
                  [kind |-> "estimate",
                   x |-> ap_coordinates[Usable(recent[mac])[1].ap_name].x,
                   y |-> ap_coordinates[Usable(recent[mac])[1].ap_name].y,
                   confidence |-> 100,
                   num_aps |-> 2,
                   error_radius |-> Max(DistanceOf(Usable(recent[mac])[1]),
                                        DistanceOf(Usable(recent[mac])[2]))]

\* two different anchors at one place, with different estimated distances
C10_Witness ==
    /\ pc = "lib_done"
    /\ \E mac \in Clients :
          /\ Len(Usable(recent[mac])) = 2
          /\ Usable(recent[mac])[1].ap_name # Usable(recent[mac])[2].ap_name
          /\ ap_coordinates[Usable(recent[mac])[1].ap_name].x
                = ap_coordinates[Usable(recent[mac])[2].ap_name].x
          /\ ap_coordinates[Usable(recent[mac])[1].ap_name].y
                = ap_coordinates[Usable(recent[mac])[2].ap_name].y
          /\ DistanceOf(Usable(recent[mac])[1]) # DistanceOf(Usable(recent[mac])[2])
          /\ location[mac].kind = "estimate"
          /\ location[mac].error_radius = 1000

-----------------------------------------------------------------------------
(* Claims about the solvers, on SpecSolve.                                 *)

\* the anchor and the estimated distance of the i-th pair handed to the solver
SolveAp(i) == probe.ap_distances[i].ap

SolveD(i) == probe.ap_distances[i].d

\* the square of the distance between the first two anchors
Separation2 ==
    (SolveAp(2).x - SolveAp(1).x) * (SolveAp(2).x - SolveAp(1).x)
        + (SolveAp(2).y - SolveAp(1).y) * (SolveAp(2).y - SolveAp(1).y)

\* a solve of exactly two pairs whose anchors are at different places
TwoApart == pc = "solved" /\ Len(probe.ap_distances) = 2 /\ Separation2 # 0

\* The sign of the discriminant d1^2 - a^2 of the two circles: negative when
\* they do not meet (too far apart, or one inside the other), zero when they
\* touch, positive when they cross.
CircleSign ==
    IF \/ Separation2 > (SolveD(1) + SolveD(2)) * (SolveD(1) + SolveD(2))
       \/ Separation2 < (SolveD(1) - SolveD(2)) * (SolveD(1) - SolveD(2))
    THEN -1
    ELSE IF \/ Separation2 = (SolveD(1) + SolveD(2)) * (SolveD(1) + SolveD(2))
            \/ Separation2 = (SolveD(1) - SolveD(2)) * (SolveD(1) - SolveD(2))
    THEN 0
    ELSE 1

\* every operand of the two-anchor solve is a binary fraction
ExactOperands ==
    /\ FloatExact(SolveAp(1).x) /\ FloatExact(SolveAp(1).y)
    /\ FloatExact(SolveAp(2).x) /\ FloatExact(SolveAp(2).y)
    /\ FloatExact(SolveD(1)) /\ FloatExact(SolveD(2))

\* the sign of the discriminant as the solver evaluates it
DiscriminantSign ==
    IF CircleSign # 0 \/ ExactOperands THEN CircleSign
    ELSE float_rounding[SolveD(1) <= SolveD(2)]

C12_EqualDistancesMidpoint ==
    (/\ TwoApart
     /\ SolveD(1) = SolveD(2)
     /\ 4 * SolveD(1) * SolveD(1) >= Separation2)
    => /\ probe.out.kind = "estimate"
       /\ 2 * probe.out.x = SolveAp(1).x + SolveAp(2).x
       /\ 2 * probe.out.y = SolveAp(1).y + SolveAp(2).y
       /\ probe.out.confidence = 700

\* a solve of three or more pairs
MultiAp == pc = "solved" /\ Len(probe.ap_distances) >= 3

\* (p_i - p_1) x (p_j - p_1): twice the area of the triangle of anchors 1, i, j
Cross(i, j) ==
    (SolveAp(i).x - SolveAp(1).x) * (SolveAp(j).y - SolveAp(1).y)
        - (SolveAp(j).x - SolveAp(1).x) * (SolveAp(i).y - SolveAp(1).y)

\* The determinant of the normal equations is 4 times the sum of the squares
\* of Cross(i, j), i < j: it is zero (below the threshold) exactly when all
\* anchors lie on one line or at one place.
Degenerate ==
    \A i, j \in 1..Len(probe.ap_distances) : Cross(i, j) = 0

SumX == SumInt([i \in 1..Len(probe.ap_distances) |-> SolveAp(i).x])

SumY == SumInt([i \in 1..Len(probe.ap_distances) |-> SolveAp(i).y])

SumD == SumInt([i \in 1..Len(probe.ap_distances) |-> SolveD(i)])

\* value is the quotient num / den rounded to a whole unit
IsRounded(value, num, den) == 2 * Abs(den * value - num) <= den

SourceGrid == { << 500 * i, 500 * j >> : i \in 0..6, j \in 0..4 }

\* the i-th estimated distance is the distance from point s to the i-th anchor
ExactDistance(s, i) ==
    SolveD(i) * SolveD(i)
        = (s[1] - SolveAp(i).x) * (s[1] - SolveAp(i).x)
            + (s[2] - SolveAp(i).y) * (s[2] - SolveAp(i).y)

\* the three distances are the distances from s to the three anchors
ConsistentWith(s) == \A i \in 1..3 : ExactDistance(s, i)

\* C14: a three-anchor solve with anchors forming a non-degenerate triangle
\* and distances that are the exact distances from one source point to the
\* anchors returns that source point with confidence 1.0 and error radius 0.
C14_ExactTriangle ==
    (MultiAp /\ Len(probe.ap_distances) = 3 /\ ~Degenerate) =>
        \A s \in SourceGrid :
            ConsistentWith(s) =>
                probe.out = LocationEstimate(s[1], s[2], 1000, 3, 0)

\* a triangle, and three distances that are not all equal, from one source
C14_Witness ==
    /\ MultiAp
    /\ Len(probe.ap_distances) = 3
    /\ ~Degenerate
    /\ SolveD(1) # SolveD(2)
    /\ \E s \in SourceGrid :
          /\ ConsistentWith(s)
          /\ probe.out.kind = "estimate"
          /\ probe.out.x = s[1]
          /\ probe.out.y = s[2]

\* the largest estimated distance of the solve
MaxD == MaxOf([i \in 1..Len(probe.ap_distances) |-> SolveD(i)])

\* the sum over the anchors of |distance from the returned point - estimated
\* distance|; the mean residual is this sum divided by the number of anchors
ResidualSum ==
    SumInt(Residuals(probe.ap_distances, probe.out.x, probe.out.y))

\* max(0.1, 1 - (total / n) / max_dist), in thousandths, for a residual sum
ConfidenceFor(total) ==
    Consistency(0, 0, Len(probe.ap_distances), total, MaxD).val.confidence

\* residual sums from 0 to one and a half times n * max_dist
ResidualSums == { (k * Len(probe.ap_distances) * MaxD) \div 8 : k \in 0..12 }

\* C15: in the non-degenerate case with three or more anchors the
\* confidence is max(0.1, 1 - meanResidual / maxEstimatedDistance), the
\* mean residual is reported as the error radius, and for the fixed maximum
\* distance the confidence does not increase with the mean residual and is
\* never below 0.1.
C15_ConfidenceFormula ==
    (MultiAp /\ ~Degenerate) =>
        LET total == ResidualSum
            n     == Len(probe.ap_distances)
        IN  /\ probe.out.kind = "estimate"
            /\ probe.out.num_aps = n
            /\ IsRounded(probe.out.error_radius, total, n)
            /\ probe.out.confidence >= 100
            /\ probe.out.confidence > 100 =>
                  IsRounded(1000 - probe.out.confidence, 1000 * total, n * MaxD)
            /\ probe.out.confidence = 100 =>
                  2 * 1000 * total >= 1799 * n * MaxD
            /\ \A t \in ResidualSums :
                  /\ ConfidenceFor(t) >= 100
                  /\ t <= total => ConfidenceFor(t) >= probe.out.confidence
                  /\ t >= total => ConfidenceFor(t) <= probe.out.confidence

\* a solution that fits the distances neither exactly nor as badly as the floor
C15_Witness ==
    /\ MultiAp
    /\ ~Degenerate
    /\ probe.out.kind = "estimate"
    /\ probe.out.confidence > 100
    /\ probe.out.confidence < 1000
    /\ probe.out.error_radius > 0
    /\ probe.out.confidence = ConfidenceFor(ResidualSum)

\* C16: every LocationEstimate the solvers return, from any branch
\* (coincident, non-intersecting, intersecting, least squares, centroid
\* fallback), has a confidence in [0, 1], an anchor count of at least 2 and
\* an error radius of at least 0.
C16_EstimateRanges ==
    pc = "solved" =>
        /\ probe.out.kind = "estimate"
        /\ 0 <= probe.out.confidence
        /\ probe.out.confidence <= 1000
        /\ probe.out.num_aps >= 2
        /\ probe.out.num_aps = Len(probe.ap_distances)
        /\ probe.out.error_radius >= 0

\* a least-squares solution so far off the distances that the confidence
\* is held by its floor
C16_Witness ==
    /\ MultiAp
    /\ ~Degenerate
    /\ probe.out.kind = "estimate"
    /\ probe.out.confidence = 100
    /\ 1000 * ResidualSum > 1000 * Len(probe.ap_distances) * MaxD

-----------------------------------------------------------------------------
(* Claims about degenerate geometry under track_clients, on SpecLib.       *)

\* the (anchor, distance) pairs trilaterate made of client mac's recent
\* observations
PairsOf(mac) == ApDistances(ap_coordinates, environment_type, recent[mac])

\* the anchors of the pairs q lie on one line through the first of them
\* (or at one point), so that the normal equations are singular
Collinear(q) ==
    \A i, j \in 2..Len(q) :
        (q[i].ap.x - q[1].ap.x) * (q[j].ap.y - q[1].ap.y)
            = (q[j].ap.x - q[1].ap.x) * (q[i].ap.y - q[1].ap.y)

\* the two-anchor solver took its coincident-anchor branch on the pairs p
CoincidentFallback(p) ==
    /\ p.kind = "ok"
    /\ Len(p.val) = 2
    /\ Coincident(p.val[1].ap, p.val[2].ap)

\* the least-squares solver took its centroid fallback on the pairs p
SingularFallback(p) ==
    /\ p.kind = "ok"
    /\ Len(p.val) >= 3
    /\ Collinear(p.val)

\* client mac is in the mapping track_clients returned
ReturnedFor(mac) ==
    /\ client_locations.kind = "ok"
    /\ mac \in DOMAIN client_locations.val

-----------------------------------------------------------------------------
(* SpecReg: the registry under sequences of add_ap calls.  Up to MaxCalls  *)
(* registrations are made, with or without the argument z; at some point   *)
(* trilaterate is called once on a fixed list of observations, and         *)
(* registrations may go on after it.  probe keeps the calls made, the      *)
(* number of calls made before the solve, and what the solve returned.     *)

MaxCalls == 3

RegNames == {"vault-ap-01", "vault-ap-02"}

RegPoints == { << 0, 0 >>, << 3000, 0 >>, << 1500, 2000 >> }

\* the optional argument z: left out, or 3.0
RegHeights == { << >>, << 300 >> }

\* one client heard on both names
RegSignals ==
    << ClientSignal("aa:bb:cc:dd:ee:01", "vault-ap-01", -55, 0, DefaultFrequency),
       ClientSignal("aa:bb:cc:dd:ee:01", "vault-ap-02", -55, 0, DefaultFrequency) >>

\* the value the parameter z takes for the argument given (line 83)
HeightOf(z) == IF z = << >> THEN DefaultZ ELSE z[1]

InitReg ==
    /\ float_rounding \in OrderBlind
    /\ NoExporter
    /\ NoTrack
    /\ environment_type = "indoor"
    /\ ap_coordinates = EmptyRegistry
    /\ client_signals = RegSignals
    /\ pc = "reg"
    /\ probe = [kind |-> "reg", calls |-> << >>, solved_at |-> -1, out |-> NoCall]

\* triangulator.add_ap(name, x, y) or triangulator.add_ap(name, x, y, z)
RegAddAp ==
    /\ pc = "reg"
    /\ Len(probe.calls) < MaxCalls
    /\ \E name \in RegNames, p \in RegPoints, z \in RegHeights :
          /\ ap_coordinates' = add_ap(ap_coordinates, name, p[1], p[2], HeightOf(z))
          /\ probe' = [probe EXCEPT
                          !.calls = Append(@, [name |-> name, x |-> p[1], y |-> p[2], z |-> z])]
    /\ UNCHANGED << float_rounding, environment_type, ap_hosts, enable_triangulation,
                    scrape_interval, client_signals, now, pc, host_idx, cycles,
                    scrape_errors, tracked, recent, location, client_locations >>

\* triangulator.trilaterate(signals), once
RegSolve ==
    /\ pc = "reg"
    /\ probe.solved_at < 0
    /\ probe' = [probe EXCEPT
                    !.solved_at = Len(probe.calls),
                    !.out = trilaterate(ap_coordinates, environment_type, client_signals)]
    /\ UNCHANGED << float_rounding, environment_type, ap_coordinates, ap_hosts,
                    enable_triangulation, scrape_interval, client_signals, now, pc,
                    host_idx, cycles, scrape_errors, tracked, recent, location,
                    client_locations >>

NextReg == RegAddAp \/ RegSolve

SpecReg == InitReg /\ [][NextReg]_vars

-----------------------------------------------------------------------------
(* Claims about the registry, on SpecReg.                                  *)

\* the positions, among the first k calls, of the registrations of name
CallsOf(name, k) == {i \in 1..k : probe.calls[i].name = name}

\* the entry the most recent of the first k calls for name asked for
LastCallEntry(name, k) ==
    LET last == CHOOSE i \in CallsOf(name, k) : \A j \in CallsOf(name, k) : j <= i
        c    == probe.calls[last]
    IN  APCoordinates(c.x, c.y, IF c.z = << >> THEN 250 ELSE c.z[1], name)

\* the registry the first k calls leave: each name called, at the
\* coordinates of its most recent call
RegistryAfter(k) ==
    [name \in {n \in RegNames : CallsOf(n, k) # {}} |-> LastCallEntry(name, k)]

\* C18: after any sequence of add_ap calls the registry maps each registered
\* name to the coordinates of the most recent add_ap call for that name (a
\* duplicate registration overwrites, z is 2.5 when omitted) and the other
\* entries are as they were; an observation is usable by a solve only if
\* its anchor name was registered before the solve.
C18_RegistryIsLastCall ==
    /\ ap_coordinates = RegistryAfter(Len(probe.calls))
    /\ probe.solved_at >= 0 =>
          probe.out = trilaterate(RegistryAfter(probe.solved_at), environment_type,
                                  client_signals)
    /\ (probe.solved_at >= 0 /\ DOMAIN RegistryAfter(probe.solved_at) # RegNames) =>
          probe.out = NoneValue
    /\ (probe.solved_at >= 0 /\ DOMAIN RegistryAfter(probe.solved_at) = RegNames) =>
          /\ probe.out.kind = "estimate"
          /\ probe.out.num_aps = 2

\* a name registered twice at different places, the second time without z,
\* next to another name; the solve was made before the second name came
C18_Witness ==
    /\ Len(probe.calls) = 3
    /\ probe.calls[1].name = probe.calls[3].name
    /\ probe.calls[1].name # probe.calls[2].name
    /\ << probe.calls[1].x, probe.calls[1].y >> # << probe.calls[3].x, probe.calls[3].y >>
    /\ probe.calls[1].z = << 300 >>
    /\ probe.calls[3].z = << >>
    /\ ap_coordinates[probe.calls[3].name].z = 250
    /\ probe.solved_at = 1
    /\ probe.out = NoneValue

-----------------------------------------------------------------------------
(* Claims about the registry and the buffer under the exporter, on Spec.   *)

\* C19: the anchor registry is written only during start-up: once the
\* exporter is constructed, no step of a collection cycle (collecting a
\* host's signals, update_client_locations with its call of track_clients,
\* and the conversions and solves inside it) adds, removes or changes a
\* registry entry; and track_clients leaves the list it was given as it
\* was: the buffer after update_client_locations is that list, less the
\* observations older than the retention window when the call returned.
C19_RegistryFrozen ==
    [][/\ ap_coordinates' = ap_coordinates
       /\ ap_coordinates' = setup_ap_coordinates(ap_hosts, enable_triangulation)
       /\ (pc = "triangulate" /\ tracked'.kind = "call") =>
             /\ tracked'.signals = client_signals
             /\ client_signals' \in {client_signals, Retained(client_signals, now)}
             /\ client_locations'.kind = "ok" =>
                   client_signals' = Retained(client_signals, now)]_vars

\* a second cycle in which track_clients located a client from a registry
\* of two anchors
C19_Witness ==
    /\ cycles >= 2
    /\ pc = "sleep"
    /\ tracked.kind = "call"
    /\ client_locations.kind = "ok"
    /\ DOMAIN client_locations.val # {}
    /\ DOMAIN ap_coordinates = {HostNames[1], HostNames[2]}

-----------------------------------------------------------------------------
(* SpecRepeat: track_clients called again and again on one tracker.  Each  *)
(* call gets one of a few observation lists; probe keeps the list and the  *)
(* result of every call made.                                              *)

MaxTracks == 3

\* an observation of client mac on the anchor name at time 0
Heard(mac, name, rssi) == ClientSignal(mac, name, rssi, 0, DefaultFrequency)

\* one client on two anchors; the other client on three; both clients;
\* one client on a single anchor; one client twice on one anchor; nothing
RepeatLists ==
    { << Heard("aa:bb:cc:dd:ee:01", "vault-ap-01", -55),
         Heard("aa:bb:cc:dd:ee:01", "vault-ap-03", -55) >>,
      << Heard("11:22:33:44:55:02", "vault-ap-01", -55),
         Heard("11:22:33:44:55:02", "vault-ap-02", -25),
         Heard("11:22:33:44:55:02", "vault-ap-03", -55) >>,
      << Heard("aa:bb:cc:dd:ee:01", "vault-ap-01", -25),
         Heard("11:22:33:44:55:02", "vault-ap-01", -55),
         Heard("aa:bb:cc:dd:ee:01", "vault-ap-03", -55),
         Heard("11:22:33:44:55:02", "vault-ap-03", -55) >>,
      << Heard("aa:bb:cc:dd:ee:01", "vault-ap-01", -55) >>,
      << Heard("aa:bb:cc:dd:ee:01", "vault-ap-01", -55),
         Heard("aa:bb:cc:dd:ee:01", "vault-ap-01", -25) >>,
      << >> }

InitRepeat ==
    /\ float_rounding \in OrderBlind
    /\ NoExporter
    /\ NoTrack
    /\ \E setup \in Setups :
          /\ environment_type = setup.env
          /\ ap_coordinates = setup.reg
    /\ client_signals = << >>
    /\ pc = "repeat"
    /\ probe = [kind |-> "history", calls |-> << >>]

\* triangulator.track_clients(list)
RepeatTrack ==
    /\ pc = "repeat"
    /\ Len(probe.calls) < MaxTracks
    /\ \E list \in RepeatLists :
          /\ client_signals' = list
          /\ Returned(track_clients(ap_coordinates, environment_type, list), list, now)
          /\ probe' = [probe EXCEPT
                          !.calls = Append(@, [signals |-> list,
                                               result |-> track_clients(ap_coordinates,
                                                              environment_type, list).result])]
    /\ UNCHANGED << float_rounding, environment_type, ap_hosts, enable_triangulation,
                    scrape_interval, now, pc, host_idx, cycles, scrape_errors >>

NextRepeat == RepeatTrack

SpecRepeat == InitRepeat /\ [][NextRepeat]_vars

-----------------------------------------------------------------------------
(* Claims about repeated calls, on SpecRepeat.                             *)

\* C20: track_clients keeps no position history: two calls with the same
\* registry and the same observation list return the same mapping, whatever
\* calls with other observations were made in between, and a client is in
\* the mapping of a call only if the list of that call has observations of
\* it.
C20_NoHistory ==
    \A i, j \in 1..Len(probe.calls) :
        /\ probe.calls[i].signals = probe.calls[j].signals =>
              probe.calls[i].result = probe.calls[j].result
        /\ probe.calls[i].result.kind = "ok"
        /\ \A mac \in DOMAIN probe.calls[i].result.val :
              \E k \in 1..Len(probe.calls[i].signals) :
                  probe.calls[i].signals[k].mac_address = mac

\* one list given to the first and the third call, with a call between
\* them that located another client
C20_Witness ==
    /\ Len(probe.calls) = 3
    /\ probe.calls[1].signals = probe.calls[3].signals
    /\ probe.calls[1].signals # probe.calls[2].signals
    /\ DOMAIN probe.calls[1].result.val = {"aa:bb:cc:dd:ee:01"}
    /\ DOMAIN probe.calls[2].result.val = {"11:22:33:44:55:02"}
    /\ probe.calls[3].result = probe.calls[1].result

-----------------------------------------------------------------------------
(* SpecGroup: track_clients on lists of one to MaxGroup observations of    *)
(* two clients, on the default frequency or with a frequency of zero.      *)

MaxGroup == 3

GroupSignals ==
    { ClientSignal(mac, name, -55, 0, f) :
          mac \in LibMacs, name \in {"vault-ap-01", "vault-ap-02"},
          f \in {DefaultFrequency, 0} }

InitGroup ==
    /\ float_rounding \in OrderBlind
    /\ NoExporter
    /\ NoTrack
    /\ environment_type = "vault"
    /\ ap_coordinates = VaultRegistry
    /\ \E n \in 1..MaxGroup : client_signals \in [1..n -> GroupSignals]
    /\ pc = "group"
    /\ probe = Idle

\* triangulator.track_clients(all_signals)
GroupTrack ==
    /\ pc = "group"
    /\ Returned(track_clients(ap_coordinates, environment_type, client_signals),
                client_signals, now)
    /\ pc' = "grouped"
    /\ UNCHANGED << float_rounding, environment_type, ap_hosts, enable_triangulation,
                    scrape_interval, client_signals, now, host_idx, cycles,
                    scrape_errors, probe >>

NextGroup == GroupTrack

SpecGroup == InitGroup /\ [][NextGroup]_vars

-----------------------------------------------------------------------------
(* Claims about the grouping, on SpecGroup.                                *)

\* what a call that returned r says about client mac: its estimate, its
\* omission, or the exception that left the call
OutcomeFor(r, mac) ==
    IF r.kind = "raise" THEN r
    ELSE IF mac \in DOMAIN r.val THEN r.val[mac]
    ELSE [kind |-> "omitted"]

\* the client identifiers in the list
MacsIn(all_signals) == {all_signals[i].mac_address : i \in 1..Len(all_signals)}

\* the observations of client mac alone
OnlyOf(all_signals, mac) == SelectSeq(all_signals, LAMBDA s : s.mac_address = mac)

\* C21: track_clients groups by the raw identifier and handles each group
\* on its own: the keys of the mapping are identifiers of the input, and
\* the estimate or omission of a client is what a call on that client's
\* observations alone gives, whatever observations of other clients are in
\* the list.
C21_GroupsIndependent ==
    pc = "grouped" =>
        /\ client_locations.kind = "ok" =>
              DOMAIN client_locations.val \subseteq MacsIn(client_signals)
        /\ \A mac \in MacsIn(client_signals) :
              OutcomeFor(client_locations, mac)
                  = OutcomeFor(track_clients(ap_coordinates, environment_type,
                                             OnlyOf(client_signals, mac)).result, mac)

-----------------------------------------------------------------------------
(* Claims about the polling cycle, on Spec.                                *)

\* C22: in every polling cycle track_clients is called at most once, and
\* only after the collection step of every configured host of the cycle
\* has finished, with or without an error; the list it is given is the
\* buffer with all the observations of the cycle, and nothing is collected
\* in the cycle after the call.
C22_TrackOncePerCycle ==
    [][/\ (tracked'.kind = "call" /\ tracked' # tracked) =>
             /\ tracked.kind = "none"
             /\ pc = "triangulate"
             /\ host_idx = Len(ap_hosts) + 1
             /\ tracked'.signals = client_signals
             /\ tracked'.at = now
       /\ (tracked.kind = "call" /\ cycles' = cycles) =>
             /\ tracked' = tracked
             /\ client_signals' = client_signals
       /\ pc' = "triangulate" => host_idx' = Len(ap_hosts) + 1]_vars

\* a second cycle of two hosts, the first of which failed, with the call
\* made on a buffer that holds the second host's observations of the cycle
C22_Witness ==
    /\ cycles = 2
    /\ pc = "sleep"
    /\ Len(ap_hosts) = 2
    /\ tracked.kind = "call"
    /\ tracked.at = now
    /\ scrape_errors[ap_hosts[1]] = 2
    /\ \E i \in 1..Len(tracked.signals) :
          /\ tracked.signals[i].timestamp = now
          /\ tracked.signals[i].ap_name = ap_hosts[2]

\* C23: an exception raised while collecting from one host increments that
\* host's scrape-error counter exactly once and no other counter, does not
\* stop the collection from the remaining hosts of the cycle and does not
\* prevent the triangulation step of the cycle; after the cycle the main
\* loop sleeps and starts the next one, whatever failed.
C23_ErrorsContained ==
    [][/\ scrape_errors' # scrape_errors =>
             /\ pc = "collect"
             /\ scrape_errors' = [scrape_errors EXCEPT ![ap_hosts[host_idx]] = @ + 1]
             /\ host_idx' = host_idx + 1
             /\ pc' = (IF host_idx < Len(ap_hosts) THEN "collect" ELSE "triangulate")
             /\ client_signals' = client_signals
       /\ \A h \in DOMAIN scrape_errors' : scrape_errors'[h] <= cycles'
       /\ pc = "triangulate" =>
             /\ pc' = "sleep"
             /\ Tracks => (tracked'.kind = "call" /\ tracked'.signals = client_signals)
       /\ (pc' = "sleep" /\ cycles' < MaxCycles) => (ENABLED Sleep)'
       /\ (pc = "sleep" /\ pc' # "sleep") =>
             /\ pc' = "collect"
             /\ host_idx' = 1
             /\ cycles' = cycles + 1]_vars

\* the first of two hosts failed in the second cycle; the second host was
\* polled after it and the cycle went on to locate clients
C23_Witness ==
    /\ cycles = 2
    /\ pc = "sleep"
    /\ Len(ap_hosts) = 2
    /\ scrape_errors[ap_hosts[1]] = 1
    /\ scrape_errors[ap_hosts[2]] = 0
    /\ \A i \in 1..Len(client_signals) :
          client_signals[i].timestamp = now => client_signals[i].ap_name = ap_hosts[2]
    /\ \E i \in 1..Len(client_signals) : client_signals[i].timestamp = now
    /\ tracked.kind = "call"
    /\ client_locations.kind = "ok"
    /\ DOMAIN client_locations.val # {}

-----------------------------------------------------------------------------
(* Further claims about the two-anchor solver, on SpecSolve.               *)

\* (d1^2 - d2^2 + d_ap^2), the numerator of a = a_num / (2 * d_ap)
ProjectionNum == SolveD(1) * SolveD(1) - SolveD(2) * SolveD(2) + Separation2

\* value is offset * ProjectionNum / (2 * d_ap^2) rounded to a whole unit:
\* the projection a * offset / d_ap
IsProjection(value, offset) ==
    WCmp(WAbs(WSub(WMul(W(4 * Separation2), W(value)),
                   WMul(W(2 * ProjectionNum), W(offset)))),
         W(2 * Separation2)) <= 0

\* C24: for anchors at different places the two-anchor solver returns the
\* same point in both branches, the projection point
\* ap1 + a * (ap2 - ap1) / |ap2 - ap1| with
\* a = (d1^2 - d2^2 + |ap2 - ap1|^2) / (2 * |ap2 - ap1|); the point lies on
\* the line through the two anchors, and the confidence alone tells the
\* intersecting from the non-intersecting case.
C24_ProjectionPoint ==
    TwoApart =>
        LET x  == probe.out.x - SolveAp(1).x
            y  == probe.out.y - SolveAp(1).y
            dx == SolveAp(2).x - SolveAp(1).x
            dy == SolveAp(2).y - SolveAp(1).y
        IN  /\ probe.out.kind = "estimate"
            /\ IsProjection(x, dx)
            /\ IsProjection(y, dy)
            /\ 2 * Abs(x * dy - y * dx) <= Abs(dx) + Abs(dy)
            /\ probe.out.confidence \in {300, 700}

\* circles that cross, about a baseline that is parallel to neither axis:
\* the two candidates are off the baseline, their midpoint is on it
C24_Witness ==
    /\ TwoApart
    /\ CircleSign = 1
    /\ SolveAp(2).x # SolveAp(1).x
    /\ SolveAp(2).y # SolveAp(1).y
    /\ probe.out.confidence = 700
    /\ IsProjection(probe.out.x - SolveAp(1).x, SolveAp(2).x - SolveAp(1).x)

-----------------------------------------------------------------------------
(* Claims about the anchor count under the exporter, on Spec.              *)

\* the observations among q that name a registered anchor
NamingRegistered(q) == SelectSeq(q, LAMBDA s : s.ap_name \in DOMAIN ap_coordinates)

\* the anchor names in q
NamesIn(q) == {q[i].ap_name : i \in 1..Len(q)}

Swapped == << probe.ap_distances[2], probe.ap_distances[1] >>

\* C26: the two-anchor solver is symmetric in its arguments: the two
\* (anchor, distance) pairs given in the other order yield the same
\* position (to the centimetre), confidence, anchor count and error radius.
C26_Symmetric ==
    (pc = "solved" /\ Len(probe.ap_distances) = 2) =>
        LET other == trilaterate_2ap(Swapped)
        IN  /\ Abs(probe.out.x - other.x) <= 1
            /\ Abs(probe.out.y - other.y) <= 1
            /\ probe.out.confidence = other.confidence
            /\ probe.out.num_aps = other.num_aps
            /\ probe.out.error_radius = other.error_radius

-----------------------------------------------------------------------------
(* Claims about the recency filter, on SpecLib.                            *)

\* C27: the recency filter of track_clients always keeps a client's newest
\* observation, so the filtered group of every client in the input is not
\* empty and the branch that skips a client with an empty group is never
\* taken; a client is left out of the mapping only because the solver
\* returned no estimate or a confidence of at most 0.1.
C27_NewestKept ==
    pc = "lib_done" =>
        /\ client_locations.kind = "ok"
        /\ DOMAIN recent = MacsIn(client_signals)
        /\ \A mac \in MacsIn(client_signals) :
              LET own == OnlyOf(client_signals, mac)
              IN  /\ recent[mac] # << >>
                  /\ \E i \in 1..Len(recent[mac]) :
                        \A j \in 1..Len(own) : own[j].timestamp <= recent[mac][i].timestamp
                  /\ mac \notin DOMAIN client_locations.val
                        <=> \/ location[mac].kind = "None"
                            \/ /\ location[mac].kind = "estimate"
                               /\ location[mac].confidence <= 100

\* a client whose older observations fall out of the window: the newest one
\* stays, is too few for a solve, and the client is left out
C27_Witness ==
    /\ pc = "lib_done"
    /\ \E mac \in MacsIn(client_signals) :
          /\ Len(OnlyOf(client_signals, mac)) = 3
          /\ Len(recent[mac]) = 1
          /\ location[mac].kind = "None"
          /\ mac \notin DOMAIN client_locations.val

-----------------------------------------------------------------------------
(* SpecCollect: collect_wireless_metrics for one AP host.  Init draws the  *)
(* outcome of the SSID discovery, whether an interface-to-SSID mapping is  *)
(* configured and finds SSIDs, and the rows of the client RSSI table and   *)
(* of the client MAC table, one row per client index; the action is the    *)
(* call.                                                                   *)

\* lines 197-201: results[str(varBind[0])] = value.  The key is the full
\* OID of the row, the table's base OID followed by the row's index.
snmp_walk(base_oid, rows) ==
    [oid \in {<< base_oid, i >> : i \in 1..Len(rows)} |-> rows[oid[2]]]

\* lines 791-795: clients[f"client_{oid_suffix}"]['mac'] for the rows of the
\* MAC table
MacsById(mac_walk) ==
    [id \in {<< "client_" >> \o oid : oid \in DOMAIN mac_walk} |->
        mac_walk[<< id[2], id[3] >>]]

\* lines 778-787 and 809-838 for the rows of the RSSI table from index on:
\* one ClientSignal per valid RSSI row, with the 'mac' of its client_id or
\* the placeholder of line 814
RECURSIVE WalkedSignals(_, _, _, _, _)
WalkedSignals(rssi_walk, macs, index, ap_host, current_time) ==
    IF << "rssi", index >> \notin DOMAIN rssi_walk THEN << >>
    ELSE (IF ValidRssi(rssi_walk[<< "rssi", index >>])
          THEN << ClientSignal(IF << "client_", "rssi", index >> \in DOMAIN macs
                               THEN macs[<< "client_", "rssi", index >>]
                               ELSE PlaceholderMac(index),
                               ap_host, rssi_walk[<< "rssi", index >>],
                               current_time, DefaultFrequency) >>
          ELSE << >>)
         \o WalkedSignals(rssi_walk, macs, index + 1, ap_host, current_time)

\* lines 288-296: with no SSID in the tables and an interface mapping that
\* finds SSIDs, collect_wireless_metrics returns before line 314
ReachesClientSignals(p) == ~(~p.ssids /\ p.mapping /\ p.r700)

InitCollect ==
    /\ float_rounding \in OrderBlind
    /\ ap_hosts = HostNames
    /\ enable_triangulation \in BOOLEAN
    /\ scrape_interval = 30
    /\ now = 0
    /\ host_idx = 1
    /\ cycles = 1
    /\ scrape_errors = [h \in {HostNames[1], HostNames[2]} |-> 0]
    /\ NoTrack
    /\ environment_type = "indoor"
    /\ ap_coordinates = setup_ap_coordinates(ap_hosts, enable_triangulation)
    /\ client_signals = << >>
    /\ pc = "poll"
    /\ \E ssids \in BOOLEAN, mapping \in BOOLEAN, r700 \in BOOLEAN, rssi \in RssiRows,
          mac \in { << >>, << "66:77:88:99:aa:01" >>,
                    << "66:77:88:99:aa:01", "66:77:88:99:aa:02" >> } :
          probe = [kind |-> "host", ssids |-> ssids, mapping |-> mapping, r700 |-> r700,
                   rssi |-> rssi, mac |-> mac, reached |-> FALSE]

\* collect_wireless_metrics(ap_hosts[host_idx])
PollHost ==
    /\ pc = "poll"
    /\ probe' = [probe EXCEPT !.reached = enable_triangulation /\ ReachesClientSignals(probe)]
    /\ client_signals' =
          IF enable_triangulation /\ ReachesClientSignals(probe)
          THEN LET walked == WalkedSignals(snmp_walk("rssi", probe.rssi),
                                           MacsById(snmp_walk("mac", probe.mac)),
                                           1, ap_hosts[host_idx], now)
               IN  client_signals
                   \o (IF walked # << >> THEN walked
                       ELSE collect_client_signals(ap_hosts, ap_hosts[host_idx], << >>,
                                                   now, -60, -60))
          ELSE client_signals
    /\ pc' = "polled"
    /\ UNCHANGED << float_rounding, environment_type, ap_coordinates, ap_hosts,
                    enable_triangulation, scrape_interval, now, host_idx, cycles,
                    scrape_errors, tracked, recent, location, client_locations >>

NextCollect == PollHost

SpecCollect == InitCollect /\ [][NextCollect]_vars

-----------------------------------------------------------------------------
(* Claims about the collection from one host, on SpecCollect.              *)

\* C28: with triangulation enabled every call of collect_wireless_metrics
\* for a host reaches collect_client_signals for that host, on every path
\* through the SSID discovery (SSIDs in the table, the interface-to-SSID
\* mapping, the fallback OID).
C28_SignalsAlwaysCollected ==
    (pc = "polled" /\ enable_triangulation) => probe.reached

\* C30: when the RSSI table and the MAC table both return a row for the
\* same client index, the two rows are joined into one client record and
\* the ClientSignal appended to the buffer carries the MAC address of the
\* MAC table, not a generated placeholder.
C30_RowsJoinedByIndex ==
    (pc = "polled" /\ probe.reached) =>
        \A i \in 1..Len(probe.rssi) :
            (ValidRssi(probe.rssi[i]) /\ i <= Len(probe.mac)) =>
                \E k \in 1..Len(client_signals) :
                    /\ client_signals[k].rssi = probe.rssi[i]
                    /\ client_signals[k].mac_address = probe.mac[i]

-----------------------------------------------------------------------------
(* Claim about the labels of the location gauges, on Spec.                 *)

\* the six octets of the identifiers the specifications use
Octets(mac) ==
    CASE mac = "aa:bb:cc:dd:ee:01" -> << "aa", "bb", "cc", "dd", "ee", "01" >>
      [] mac = "11:22:33:44:55:02" -> << "11", "22", "33", "44", "55", "02" >>
      [] mac = "aa:bb:cc:dd:ee:a1" -> << "aa", "bb", "cc", "dd", "ee", "a1" >>
      [] mac = "aa:bb:cc:dd:ee:b2" -> << "aa", "bb", "cc", "dd", "ee", "b2" >>
      [] mac = "66:77:88:99:aa:01" -> << "66", "77", "88", "99", "aa", "01" >>
      [] mac = "66:77:88:99:aa:02" -> << "66", "77", "88", "99", "aa", "02" >>

\* line 919: mac_short = mac[:8] + "...", the first eight characters are
\* the first three octets and the two separators between them
mac_short(mac) == SubSeq(Octets(mac), 1, 3) \o << "..." >>

\* C29: in update_client_locations distinct client identifiers of the
\* mapping returned by track_clients are exported under distinct label
\* values, so the location gauges written for one client in a cycle are
\* never overwritten by those of another client.
C29_LabelsDistinct ==
    (pc = "sleep" /\ client_locations.kind = "ok") =>
        \A m1 \in DOMAIN client_locations.val : \A m2 \in DOMAIN client_locations.val :
            m1 # m2 => mac_short(m1) # mac_short(m2)

=============================================================================
